---- MODULE Spec2Model ----
(***************************************************************************)
(* Word retrieval over the hidden layers of a causal language model:       *)
(* wr_hidden.py (pooling, batched extraction, margin scoring, accuracy),   *)
(* wr_data.py (aligned sampling and filtering), wr_plot.py (the plotting   *)
(* boundary) and wr_experiment.py (run_experiment).                        *)
(*                                                                         *)
(* Tensors are sequences (1-based here, 0-based in the source; an index    *)
(* the source returns, such as argmax, is kept 0-based).  Reals are exact  *)
(* rationals <<numerator, denominator>> in lowest terms, denominator > 0.  *)
(***************************************************************************)
EXTENDS Integers, Sequences, FiniteSets, TLC

VARIABLES pc, args, locals, ret, fs

vars == <<pc, args, locals, ret, fs>>

\* ------------------------------------------------------------------ bounds

\* Largest number of rows of a representation set scored against itself.
MaxRows == 3
\* Largest number of rows of each of two different representation sets.
MaxCand == 2
\* Largest neighbourhood size tried besides the default.
MaxK == 2
\* Largest number of rows (and columns) of a score matrix given to layer_accuracy.
MaxScoreRows == 3

\* Longest sequence of a batch given to a pooling function.
MaxSeqLen == 5
\* Largest number of sequences of a batch given to a pooling function.
MaxBatchRows == 2
\* Largest number of sentences given to layer_representation.
MaxSentences == 3
\* Largest batch size tried besides the default.
MaxBatchSize == 3
\* The model reports the layers 0..NumLayers.
NumLayers == 1
\* Largest number of words of each list given to sample_pairs and filter_pairs.
MaxWords == 2
\* Largest sample size tried besides the default.
MaxSample == 2
\* Largest number of word pairs of the dataset.
MaxPairs == 2

\* --------------------------------------------------------- program constants

\* margin_based_scoring(..., k=4, ...)
DefaultK == 4
\* margin_based_scoring(..., eps=1e-6): eps = 1 / EpsDen
EpsDen == 1000000
\* layer_representation(..., batch_size=32, ...)
DefaultBatchSize == 32
\* run_experiment(..., data_sample_size=100, ...)
DefaultSampleSize == 100

\* The file system as the run sees it: the directories made, the files written.
NoFiles == [dirs |-> {}, files |-> {}]

\* ------------------------------------------------------- rational arithmetic

Abs(x) == IF x < 0 THEN -x ELSE x

Min(x, y) == IF x < y THEN x ELSE y

RECURSIVE GCD(_, _)
GCD(x, y) == IF y = 0 THEN x ELSE GCD(y, x % y)

\* n / d in lowest terms with a positive denominator (d # 0).
Rat(n, d) ==
    LET g == GCD(Abs(n), Abs(d))
        s == IF d < 0 THEN -1 ELSE 1
    IN  <<(s * n) \div g, (s * d) \div g>>

R(n) == <<n, 1>>

RatAdd(x, y) ==
    LET g == GCD(x[2], y[2])
        l == (x[2] \div g) * y[2]
    IN  Rat(x[1] * (l \div x[2]) + y[1] * (l \div y[2]), l)

RatNeg(x) == <<-x[1], x[2]>>

RatSub(x, y) == RatAdd(x, RatNeg(y))

\* The product, cancelling across before multiplying.
RatMul(x, y) ==
    LET g1 == GCD(Abs(x[1]), y[2])
        g2 == GCD(Abs(y[1]), x[2])
    IN  Rat((x[1] \div g1) * (y[1] \div g2), (x[2] \div g2) * (y[2] \div g1))

\* x / y for y # 0.
RatDiv(x, y) == RatMul(x, Rat(y[2], y[1]))

\* x < y, by the continued-fraction expansions (no cross product is formed).
RECURSIVE RatLess(_, _)
RatLess(x, y) ==
    LET qx == x[1] \div x[2]
        qy == y[1] \div y[2]
        rx == x[1] % x[2]
        ry == y[1] % y[2]
    IN  IF qx # qy THEN qx < qy
        ELSE IF rx = 0 THEN ry > 0
        ELSE IF ry = 0 THEN FALSE
        ELSE RatLess(<<y[2], ry>>, <<x[2], rx>>)

RECURSIVE SqrtFrom(_, _)
SqrtFrom(n, r) == IF r * r >= n THEN r ELSE SqrtFrom(n, r + 1)

\* The square root of a rational whose numerator and denominator are squares.
RatSqrt(x) == <<SqrtFrom(x[1], 0), SqrtFrom(x[2], 0)>>

RECURSIVE RatSum(_)
RatSum(s) == IF s = <<>> THEN R(0) ELSE RatAdd(Head(s), RatSum(Tail(s)))

\* ------------------------------------------------------------------ tensors

\* a.size(0) and a.size(1) of a matrix with at least one row.
size0(a) == Len(a)
size1(a) == Len(a[1])

\* A row of two integer components.
Vec(x, y) == <<R(x), R(y)>>

\* A right-padded mask: c ones, then zeros.
RightPadded(c, l) == [p \in 1..l |-> IF p <= c THEN 1 ELSE 0]

Col(a, j) == [i \in 1..Len(a) |-> a[i][j]]

Dot(u, v) == RatSum([d \in 1..Len(u) |-> RatMul(u[d], v[d])])

\* torch.linalg.norm(x, dim=1, keepdim=True), one row.
norm(u) == RatSqrt(Dot(u, u))

\* x / torch.linalg.norm(x, dim=1, keepdim=True), one row.
normalized(u) == [d \in 1..Len(u) |-> RatDiv(u[d], norm(u))]

cosine_similarity(first, second) ==
    LET first_norm == [i \in 1..Len(first) |-> normalized(first[i])]
        second_norm == [j \in 1..Len(second) |-> normalized(second[j])]
    IN  [i \in 1..Len(first) |->
            [j \in 1..Len(second) |-> Dot(first_norm[i], second_norm[j])]]

\* The 1-based position of the first maximum of a non-empty vector.
RECURSIVE ArgmaxFrom(_, _, _)
ArgmaxFrom(v, i, best) ==
    IF i > Len(v) THEN best
    ELSE ArgmaxFrom(v, i + 1, IF RatLess(v[best], v[i]) THEN i ELSE best)

Remove(v, p) == [i \in 1..(Len(v) - 1) |-> IF i < p THEN v[i] ELSE v[i + 1]]

\* What a call returns: a value, or the exception it raises.
Ok(v) == [ok |-> TRUE, val |-> v, err |-> "", acc |-> <<>>]
Raise(e) == [ok |-> FALSE, val |-> <<>>, err |-> e, acc |-> <<>>]

RECURSIVE topk_values(_, _)
topk_values(v, k) ==
    IF k = 0 THEN <<>>
    ELSE LET p == ArgmaxFrom(v, 2, 1)
         IN  <<v[p]>> \o topk_values(Remove(v, p), k - 1)

\* torch.topk(v, k).values: the k largest values, largest first.
\* torch raises when k is out of range for the dimension.
topk(v, k) ==
    IF k < 0 \/ k > Len(v) THEN Raise("RuntimeError") ELSE Ok(topk_values(v, k))

\* x.mean() of a non-empty vector.
mean(v) == RatDiv(RatSum(v), R(Len(v)))

\* ------------------------------------------------------- wr_hidden: scoring

\* A slip in the clamp: the row neighbourhood clamped by the number of rows.
nn_k_row_by_rows(a, k) == [i \in 1..size0(a) |-> topk(a[i], Min(k, size0(a)))]

\* torch.topk(a, k=min(k, a.size(1)), dim=1).values, row by row.
nn_k_row(a, k) == [i \in 1..size0(a) |-> topk(a[i], Min(k, size1(a)))]

\* torch.topk(a, k=min(k, a.size(0)), dim=0).values, column by column.
nn_k_col(a, k) == [j \in 1..size1(a) |-> topk(Col(a, j), Min(k, size0(a)))]

AllOk(rs) == \A i \in 1..Len(rs) : rs[i].ok

\* b = (row_mean + col_mean) * 0.5 + eps, broadcast to the shape of a.
baseline(a, row_mean, col_mean, eps) ==
    [i \in 1..size0(a) |-> [j \in 1..size1(a) |->
        RatAdd(RatMul(RatAdd(row_mean[i], col_mean[j]), Rat(1, 2)), eps)]]

\* A slip in the dispatch: only the tag "ratio" divides, every other tag subtracts.
margin_ratio_only(a, b, variant) ==
    [i \in 1..size0(a) |-> [j \in 1..size1(a) |->
        IF variant = "ratio" THEN RatDiv(a[i][j], b[i][j])
        ELSE RatSub(a[i][j], b[i][j])]]

\* A slip in the last line: b / a for a / b.
margin_inverted(a, b, variant) ==
    [i \in 1..size0(a) |-> [j \in 1..size1(a) |->
        IF variant = "distance" THEN RatSub(a[i][j], b[i][j])
        ELSE IF a[i][j][1] = 0 THEN R(0) ELSE RatDiv(b[i][j], a[i][j])]]

\* The last line of margin_based_scoring: a - b or a / b, elementwise.
margin(a, b, variant) ==
    [i \in 1..size0(a) |-> [j \in 1..size1(a) |->
        IF variant = "distance" THEN RatSub(a[i][j], b[i][j])
        ELSE RatDiv(a[i][j], b[i][j])]]

\* The locals of margin_based_scoring when it returns or raises, ret included.
\* A local the call never assigned is <<>>.
margin_based_scoring_locals(first, second, k, variant, eps) ==
    LET a == cosine_similarity(first, second)
        none == [a |-> a, row_mean |-> <<>>, col_mean |-> <<>>, b |-> <<>>]
    IN  IF variant = "absolute" THEN [none EXCEPT !.a = a] @@ [ret |-> Ok(a)]
        ELSE LET nr == nn_k_row(a, k)
                 nc == nn_k_col(a, k)
             IN  IF ~(AllOk(nr) /\ AllOk(nc)) THEN none @@ [ret |-> Raise("RuntimeError")]
                 ELSE LET row_mean == [i \in 1..Len(nr) |-> mean(nr[i].val)]
                          col_mean == [j \in 1..Len(nc) |-> mean(nc[j].val)]
                          b == baseline(a, row_mean, col_mean, eps)
                      IN  [a |-> a, row_mean |-> row_mean, col_mean |-> col_mean,
                           b |-> b, ret |-> Ok(margin(a, b, variant))]

margin_based_scoring(first, second, k, variant, eps) ==
    margin_based_scoring_locals(first, second, k, variant, eps).ret

\* A slip in the tie-break: the last maximum of each row.
RECURSIVE ArgmaxLastFrom(_, _, _)
ArgmaxLastFrom(v, i, best) ==
    IF i > Len(v) THEN best
    ELSE ArgmaxLastFrom(v, i + 1, IF RatLess(v[i], v[best]) THEN best ELSE i)

argmax_rows_last(score) ==
    [i \in 1..size0(score) |-> ArgmaxLastFrom(score[i], 2, 1) - 1]

\* score.argmax(dim=1): for each row the 0-based column of its first maximum.
argmax_rows(score) == [i \in 1..size0(score) |-> ArgmaxFrom(score[i], 2, 1) - 1]

\* (preds == arange(n)).float().mean() for a score matrix with n >= 1 rows.
layer_accuracy(score) ==
    LET preds == argmax_rows(score)
        hits == Cardinality({i \in 1..Len(preds) : preds[i] = i - 1})
    IN  Rat(hits, Len(preds))

\* ------------------------------------------------------- wr_hidden: pooling

\* seq[i] for a 0-based index i, negative indices counting from the end.
At(seq, i) == IF i < 0 THEN seq[Len(seq) + i + 1] ELSE seq[i + 1]

RECURSIVE IntSum(_)
IntSum(s) == IF s = <<>> THEN 0 ELSE Head(s) + IntSum(Tail(s))

\* A slip in the denominator: the padded length for the number of real tokens.
mean_hidden_state_by_length(hidden_states, attention_mask) ==
    [s \in 1..Len(hidden_states) |->
        [d \in 1..Len(hidden_states[s][1]) |->
            RatDiv(RatSum([p \in 1..Len(hidden_states[s]) |->
                             RatMul(hidden_states[s][p][d], R(attention_mask[s][p]))]),
                   R(Len(attention_mask[s])))]]

\* summed = (hidden_states * mask).sum(dim=1); count = mask.sum(dim=1);
\* summed / count, for sequences with at least one real token.
mean_hidden_state(hidden_states, attention_mask) ==
    [s \in 1..Len(hidden_states) |->
        [d \in 1..Len(hidden_states[s][1]) |->
            RatDiv(RatSum([p \in 1..Len(hidden_states[s]) |->
                             RatMul(hidden_states[s][p][d], R(attention_mask[s][p]))]),
                   R(IntSum(attention_mask[s])))]]

\* A slip in the index: the last position of the padded sequence.
last_token_hidden_state_padded(hidden_states, attention_mask) ==
    [s \in 1..Len(hidden_states) |-> At(hidden_states[s], -1)]

\* last_token_index = attention_mask.ne(0).sum(dim=1) - 1;
\* hidden_states[batch_range, last_token_index]
last_token_hidden_state(hidden_states, attention_mask) ==
    LET last_token_index ==
            [s \in 1..Len(attention_mask) |->
                Cardinality({p \in 1..Len(attention_mask[s]) : attention_mask[s][p] # 0}) - 1]
    IN  [s \in 1..Len(hidden_states) |-> At(hidden_states[s], last_token_index[s])]

\* hidden_state_fn, by the tag run_experiment selects it with.
hidden_state_fn(tag, hidden_states, attention_mask) ==
    IF tag = "mean" THEN mean_hidden_state(hidden_states, attention_mask)
    ELSE last_token_hidden_state(hidden_states, attention_mask)

\* ---------------------------------------------------- wr_hidden: extraction

\* A sentence is the sequence of token ids the tokenizer gives it (one or
\* more); padding uses the id PadId, which no sentence holds.
PadId == 0

MaxOf(S) == CHOOSE x \in S : \A y \in S : y <= x

\* tokenizer(batch, return_tensors="pt", padding=True): every sentence padded
\* on the right to the longest of the batch.
tokenizer(batch) ==
    LET l == MaxOf({Len(batch[s]) : s \in 1..Len(batch)})
    IN  [input_ids |-> [s \in 1..Len(batch) |->
                           [p \in 1..l |-> IF p <= Len(batch[s]) THEN batch[s][p] ELSE PadId]],
         attention_mask |-> [s \in 1..Len(batch) |-> RightPadded(Len(batch[s]), l)]]

\* The causal model: the hidden vector of layer i at position p is a function
\* of the ids up to p.  Its direction follows the first id, so that pooled
\* rows have rational length; its size grows with the layer and the prefix.
Directions == <<Vec(3, 4), Vec(4, 3), Vec(-3, 4)>>

Direction(i, ids) == Directions[((ids[1] + i - 1) % 3) + 1]

Size(i, ids, p) == ids[p] + i * IntSum(SubSeq(ids, 1, p - 1))

\* What the model computes at a padded position is of no concern to it: the
\* vector there is the causal one displaced by noise.
HiddenAt(i, ids, mask, p, noise) ==
    LET d == Direction(i, ids)
        z == R(Size(i, ids, p))
        n == IF mask[p] = 0 THEN R(noise) ELSE R(0)
    IN  <<RatAdd(RatMul(z, d[1]), n), RatSub(RatMul(z, d[2]), n)>>

\* model(**tokens, output_hidden_states=True, use_cache=False).hidden_states:
\* one (b, l, h) tensor for each of the layers 0..NumLayers.
hidden_states_of(tokens, noise) ==
    [i \in 0..NumLayers |->
        [s \in 1..Len(tokens.input_ids) |->
            [p \in 1..Len(tokens.input_ids[s]) |->
                HiddenAt(i, tokens.input_ids[s], tokens.attention_mask[s], p, noise)]]]

\* sentences[start : start + batch_size], start 0-based.
Slice(sentences, start, batch_size) ==
    SubSeq(sentences, start + 1, Min(start + batch_size, Len(sentences)))

\* A slip in the slice: the batch starts one sentence late.
batch_step_shifted(temp, batch, fn, noise) ==
    LET tokens == tokenizer(batch)
        hidden_states == hidden_states_of(tokens, noise)
        pooled == [i \in DOMAIN hidden_states |->
                      hidden_state_fn(fn, hidden_states[i], tokens.attention_mask)]
    IN  [i \in DOMAIN hidden_states |->
            (IF i \in DOMAIN temp THEN temp[i] ELSE <<>>) \o <<Tail(pooled[i]) \o <<pooled[i][1]>> >>]

\* One pass of the loop body: tokenize, forward, pool every layer with the
\* batch's own mask, temp.setdefault(i, []).append(hidden_state).
batch_step(temp, batch, fn, noise) ==
    LET tokens == tokenizer(batch)
        hidden_states == hidden_states_of(tokens, noise)
    IN  [i \in DOMAIN hidden_states |->
            (IF i \in DOMAIN temp THEN temp[i] ELSE <<>>)
                \o <<hidden_state_fn(fn, hidden_states[i], tokens.attention_mask)>>]

\* torch.cat(tensors, dim=0)
RECURSIVE cat(_)
cat(tensors) == IF tensors = <<>> THEN <<>> ELSE Head(tensors) \o cat(Tail(tensors))

\* {i: torch.cat(temp[i], dim=0) for i in temp}
concatenated(temp) == [i \in DOMAIN temp |-> cat(temp[i])]

\* layer_representation as a whole, the noise of each batch given by its start.
RECURSIVE layer_representation_from(_, _, _, _, _, _)
layer_representation_from(sentences, batch_size, fn, noise, start, temp) ==
    IF start >= Len(sentences) THEN concatenated(temp)
    ELSE layer_representation_from(sentences, batch_size, fn, noise, start + batch_size,
             batch_step(temp, Slice(sentences, start, batch_size), fn, noise[start]))

layer_representation(sentences, batch_size, fn, noise) ==
    layer_representation_from(sentences, batch_size, fn, noise, 0, <<>>)

\* ------------------------------------------------------------------ wr_data

\* A slip in the sampling: indices drawn with replacement.
random_choices(n, m) == [1..m -> 0..(n - 1)]

\* What random.sample(range(n), m) can return for 0 <= m <= n: the sequences
\* of m pairwise distinct indices.
random_sample(n, m) ==
    {idx \in [1..m -> 0..(n - 1)] : \A i, j \in 1..m : i # j => idx[i] # idx[j]}

\* sample_pairs, the indices random.sample drew being given.
sample_pairs(base, target, sample_size, indices) ==
    IF Len(base) # Len(target) THEN Raise("AssertionError")
    ELSE Ok(<<[j \in 1..Len(indices) |-> At(base, indices[j])],
              [j \in 1..Len(indices) |-> At(target, indices[j])]>>)

\* tokenizer(word, return_tensors="pt", padding=False)["input_ids"].shape[1]
token_count(word) == Len(tokenizer(<<word>>).input_ids[1])

\* The loop of filter_pairs from position i (1-based) on: target[i] raises
\* IndexError past the end of target.
RECURSIVE filter_pairs_from(_, _, _, _, _)
filter_pairs_from(base, target, i, filtered_base, filtered_target) ==
    IF i > Len(base) THEN Ok(<<filtered_base, filtered_target>>)
    ELSE IF i > Len(target) THEN Raise("IndexError")
    ELSE IF token_count(base[i]) = 1 /\ token_count(target[i]) = 1
         THEN filter_pairs_from(base, target, i + 1,
                                Append(filtered_base, base[i]),
                                Append(filtered_target, target[i]))
         ELSE filter_pairs_from(base, target, i + 1, filtered_base, filtered_target)

filter_pairs(base, target) == filter_pairs_from(base, target, 1, <<>>, <<>>)

\* ------------------------------------------------------------------ wr_plot

\* A slip in the order: the folder is made and the plot saved without the
\* check for an empty mapping.
plot_layer_accuracy_unchecked(layer_acc, save_folder, files) ==
    [ret |-> Ok(<<save_folder, "layer_accuracy_plot.png">>),
     fs |-> [dirs |-> files.dirs \cup {save_folder},
             files |-> files.files \cup {<<save_folder, "layer_accuracy_plot.png">>}]]

\* plot_layer_accuracy: what it returns or raises, and the file system after.
plot_layer_accuracy(layer_acc, save_folder, files) ==
    IF DOMAIN layer_acc = {} THEN [ret |-> Raise("ValueError"), fs |-> files]
    ELSE [ret |-> Ok(<<save_folder, "layer_accuracy_plot.png">>),
          fs |-> [dirs |-> files.dirs \cup {save_folder},
                  files |-> files.files \cup {<<save_folder, "layer_accuracy_plot.png">>}]]

\* ------------------------------------------------------------ wr_experiment

\* The token ids of FEW_SHOT_TEMPLATE[target_lang] + LANG_TABLE[target_lang]
\* + ': "' before the word, and of '" - English: "' after it.
FewShotPrefix == <<3, 2>>
FewShotSuffix == <<1>>

few_shot(target) == [j \in 1..Len(target) |-> FewShotPrefix \o target[j] \o FewShotSuffix]

\* The starts of the batches of n sentences.
Starts(n, batch_size) == {x \in 0..(n - 1) : x % batch_size = 0}

\* ------------------------------------------------- specification: scoring

\* Rows of integer length, so that every cosine is an exact rational; (6, 8)
\* is a multiple of (3, 4).
Vecs == {Vec(3, 4), Vec(4, 3), Vec(-3, 4), Vec(6, 8)}
CandVecs == {Vec(4, 3), Vec(0, -1)}

SeqsUpTo(S, n) == UNION {[1..m -> S] : m \in 1..n}

Ks == (1..MaxK) \cup {DefaultK}
Variants == {"ratio", "distance", "absolute", "cosine"}
Eps == Rat(1, EpsDen)

\* A set scored against itself, or two sets of any two sizes.
ScoreInputs ==
    {[first |-> f, second |-> f, k |-> k, variant |-> v] :
        f \in SeqsUpTo(Vecs, MaxRows), k \in Ks, v \in Variants}
    \cup
    {[first |-> f, second |-> s, k |-> k, variant |-> v] :
        f \in SeqsUpTo(CandVecs, MaxCand), s \in SeqsUpTo(CandVecs, MaxCand),
        k \in Ks, v \in Variants}

InitScore ==
    /\ pc = "score"
    /\ args \in ScoreInputs
    /\ locals = <<>>
    /\ ret = <<>>
    /\ fs = NoFiles

\* score = margin_based_scoring(first=..., second=..., k=..., variant=...)
Score ==
    /\ pc = "score"
    /\ locals' = margin_based_scoring_locals(args.first, args.second, args.k,
                                             args.variant, Eps)
    /\ ret' = locals'.ret
    /\ pc' = IF ret'.ok THEN "accuracy" ELSE "raised"
    /\ UNCHANGED <<args, fs>>

\* layer_acc[i] = layer_accuracy(score)
Accuracy ==
    /\ pc = "accuracy"
    /\ ret' = [ret EXCEPT !.acc = layer_accuracy(ret.val)]
    /\ pc' = "done"
    /\ UNCHANGED <<args, locals, fs>>

NextScore == Score \/ Accuracy

SpecScore == InitScore /\ [][NextScore]_vars

\* ------------------------------------------------ specification: accuracy

ScoreVals == {Rat(-1, 2), Rat(2, 3)}

\* The (n, n) score matrices.
ScoreMatrices == UNION {[1..n -> [1..n -> ScoreVals]] : n \in 1..MaxScoreRows}

InitAcc ==
    /\ pc = "accuracy"
    /\ args \in {[score |-> s] : s \in ScoreMatrices}
    /\ locals = <<>>
    /\ ret = Ok(args.score)
    /\ fs = NoFiles

NextAcc == Accuracy

SpecAcc == InitAcc /\ [][NextAcc]_vars

\* ------------------------------------------------- specification: pooling

\* Two token-vector sequences: (1,1), (3,3), (9,9), ... and (1,-1), (2,-2), ...
RECURSIVE Pow3(_)
Pow3(n) == IF n = 0 THEN 1 ELSE 3 * Pow3(n - 1)

TokenVector(f, p) == IF f = 1 THEN Vec(Pow3(p - 1), Pow3(p - 1)) ELSE Vec(p, -p)

\* Batches of 1..MaxBatchRows sequences of a common length l, each with its
\* own number c >= 1 of real tokens; the padded positions hold vectors too.
PoolInputs ==
    UNION {
        {[hidden_states |-> [s \in 1..b |-> [p \in 1..l |-> TokenVector(f[s], p)]],
          attention_mask |-> [s \in 1..b |-> RightPadded(c[s], l)],
          fn |-> t] :
            f \in [1..b -> 1..2], c \in [1..b -> 1..l], t \in {"mean", "last"}} :
        b \in 1..MaxBatchRows, l \in 1..MaxSeqLen}

InitPool ==
    /\ pc = "pool"
    /\ args \in PoolInputs
    /\ locals = <<>>
    /\ ret = <<>>
    /\ fs = NoFiles

\* hidden_state = hidden_state_fn(hs, tokens["attention_mask"])
PoolMean ==
    /\ pc = "pool"
    /\ args.fn = "mean"
    /\ ret' = Ok(hidden_state_fn("mean", args.hidden_states, args.attention_mask))
    /\ pc' = "pooled"
    /\ UNCHANGED <<args, locals, fs>>

PoolLast ==
    /\ pc = "pool"
    /\ args.fn = "last"
    /\ ret' = Ok(hidden_state_fn("last", args.hidden_states, args.attention_mask))
    /\ pc' = "pooled"
    /\ UNCHANGED <<args, locals, fs>>

NextPool == PoolMean \/ PoolLast

SpecPool == InitPool /\ [][NextPool]_vars

\* ---------------------------------------------- specification: extraction

Sentences == {<<1>>, <<2, 1>>, <<3, 1, 2>>}
PadNoise == {0, 5}
BatchSizes == (1..MaxBatchSize) \cup {DefaultBatchSize}

SentenceLists == {<<>>} \cup SeqsUpTo(Sentences, MaxSentences)

\* The same list is extracted twice, with any two batch sizes; ret holds the
\* mappings returned so far.
InitRep ==
    /\ pc = "batch"
    /\ args \in {[sentences |-> l, batch_size |-> b, hidden_state_fn |-> t] :
                    l \in SentenceLists, b \in BatchSizes, t \in {"mean", "last"}}
    /\ locals = [start |-> 0, temp |-> <<>>]
    /\ ret = <<>>
    /\ fs = NoFiles

\* for start in range(0, len(sentences), batch_size): one pass of the body.
Batch ==
    /\ pc = "batch"
    /\ locals.start < Len(args.sentences)
    /\ \E noise \in PadNoise :
          locals' = [start |-> locals.start + args.batch_size,
                     temp |-> batch_step(locals.temp,
                                         Slice(args.sentences, locals.start, args.batch_size),
                                         args.hidden_state_fn, noise)]
    /\ UNCHANGED <<pc, args, ret, fs>>

\* return {i: torch.cat(temp[i], dim=0) for i in temp}
Return ==
    /\ pc = "batch"
    /\ locals.start >= Len(args.sentences)
    /\ ret' = Append(ret, concatenated(locals.temp))
    /\ pc' = "returned"
    /\ UNCHANGED <<args, locals, fs>>

\* The second call, on the same sentences with a batch size of its own.
CallAgain ==
    /\ pc = "returned"
    /\ Len(ret) = 1
    /\ \E b \in BatchSizes : args' = [args EXCEPT !.batch_size = b]
    /\ locals' = [start |-> 0, temp |-> <<>>]
    /\ pc' = "batch"
    /\ UNCHANGED <<ret, fs>>

NextRep == Batch \/ Return \/ CallAgain

SpecRep == InitRep /\ [][NextRep]_vars

\* ---------------------------------------------------- specification: data

Words == Sentences
WordLists == {<<>>} \cup SeqsUpTo(Words, MaxWords)
SampleSizes == (0..MaxSample) \cup {DefaultSampleSize}

InitData ==
    /\ pc = "data"
    /\ args \in {[base |-> b, target |-> t, sample_size |-> n] :
                    b \in WordLists, t \in WordLists, n \in SampleSizes}
    /\ locals = <<>>
    /\ ret = <<>>
    /\ fs = NoFiles

\* base, target = wr_data.sample_pairs(base, target, sample_size=...)
SamplePairs ==
    /\ pc = "data"
    /\ \E indices \in random_sample(Len(args.base), Min(args.sample_size, Len(args.base))) :
          ret' = sample_pairs(args.base, args.target, args.sample_size, indices)
    /\ pc' = "sampled"
    /\ UNCHANGED <<args, locals, fs>>

\* base, target = wr_data.filter_pairs(base, target, tokenizer)
FilterPairs ==
    /\ pc = "data"
    /\ ret' = filter_pairs(args.base, args.target)
    /\ pc' = "filtered"
    /\ UNCHANGED <<args, locals, fs>>

NextData == SamplePairs \/ FilterPairs

SpecData == InitData /\ [][NextData]_vars

\* ------------------------------------------ specification: run_experiment

\* (base word, target word) pairs of the dataset; only the first is a pair of
\* single-token words.
Pairs == {<<<<1>>, <<1>>>>, <<<<2, 1>>, <<3, 1, 2>>>>}
Datasets == {<<>>} \cup SeqsUpTo(Pairs, MaxPairs)

\* The arguments of the run, and the dataset its target language names.
Configs ==
    {[data |-> d[1], data_sample_size |-> d[2], prompt |-> p, hidden_base |-> hb,
      hidden_target |-> ht, margin_variant |-> v, save_folder |-> "artifacts",
      dataset |-> ds] :
        d \in ({"full", "single"} \X {DefaultSampleSize}) \cup ({"sample"} \X SampleSizes),
        p \in {"zero", "few"}, hb \in {"mean", "last"}, ht \in {"mean", "last"},
        v \in {"ratio", "absolute", "distance"}, ds \in Datasets}

\* base, target = wr_data.load_sla_word(target_lang)
Init ==
    /\ pc = "select"
    /\ args \in Configs
    /\ locals = [base |-> [j \in 1..Len(args.dataset) |-> args.dataset[j][1]],
                 target |-> [j \in 1..Len(args.dataset) |-> args.dataset[j][2]],
                 base_rep |-> <<>>, target_rep |-> <<>>, layer_acc |-> <<>>]
    /\ ret = <<>>
    /\ fs = NoFiles

\* if data == "single": base, target = wr_data.filter_pairs(base, target, tokenizer)
SelectSingle ==
    /\ pc = "select"
    /\ args.data = "single"
    /\ LET r == filter_pairs(locals.base, locals.target)
       IN  IF r.ok
           THEN /\ locals' = [locals EXCEPT !.base = r.val[1], !.target = r.val[2]]
                /\ pc' = "prompt"
                /\ ret' = ret
           ELSE /\ ret' = r
                /\ pc' = "raised"
                /\ locals' = locals
    /\ UNCHANGED <<args, fs>>

\* elif data == "sample": base, target = wr_data.sample_pairs(base, target, ...)
SelectSample ==
    /\ pc = "select"
    /\ args.data = "sample"
    /\ \E indices \in random_sample(Len(locals.base),
                                     Min(args.data_sample_size, Len(locals.base))) :
          LET r == sample_pairs(locals.base, locals.target, args.data_sample_size, indices)
          IN  IF r.ok
              THEN /\ locals' = [locals EXCEPT !.base = r.val[1], !.target = r.val[2]]
                   /\ pc' = "prompt"
                   /\ ret' = ret
              ELSE /\ ret' = r
                   /\ pc' = "raised"
                   /\ locals' = locals
    /\ UNCHANGED <<args, fs>>

\* Any other data mode: the full lists.
SelectFull ==
    /\ pc = "select"
    /\ args.data \notin {"single", "sample"}
    /\ pc' = "prompt"
    /\ UNCHANGED <<args, locals, ret, fs>>

\* if prompt == "few": target = [f'{template}{lang}: "{t}" - English: "' ...]
PromptFew ==
    /\ pc = "prompt"
    /\ args.prompt = "few"
    /\ locals' = [locals EXCEPT !.target = few_shot(locals.target)]
    /\ pc' = "rep_base"
    /\ UNCHANGED <<args, ret, fs>>

PromptZero ==
    /\ pc = "prompt"
    /\ args.prompt # "few"
    /\ pc' = "rep_base"
    /\ UNCHANGED <<args, locals, ret, fs>>

\* base_rep = wr_hidden.layer_representation(..., sentences=base, ...)
RepBase ==
    /\ pc = "rep_base"
    /\ \E noise \in [Starts(Len(locals.base), DefaultBatchSize) -> PadNoise] :
          locals' = [locals EXCEPT !.base_rep =
              layer_representation(locals.base, DefaultBatchSize, args.hidden_base, noise)]
    /\ pc' = "rep_target"
    /\ UNCHANGED <<args, ret, fs>>

\* target_rep = wr_hidden.layer_representation(..., sentences=target, ...)
RepTarget ==
    /\ pc = "rep_target"
    /\ \E noise \in [Starts(Len(locals.target), DefaultBatchSize) -> PadNoise] :
          locals' = [locals EXCEPT !.target_rep =
              layer_representation(locals.target, DefaultBatchSize, args.hidden_target, noise)]
    /\ pc' = "score"
    /\ UNCHANGED <<args, ret, fs>>

\* The layers of base_rep not scored yet.
Pending == DOMAIN locals.base_rep \ DOMAIN locals.layer_acc

\* for i in base_rep.keys(): score = margin_based_scoring(...);
\* layer_acc[i] = layer_accuracy(score), one layer a step, in key order.
ScoreLayer ==
    /\ pc = "score"
    /\ Pending # {}
    /\ LET i == CHOOSE i \in Pending : \A j \in Pending : i <= j
           score == margin_based_scoring(locals.base_rep[i], locals.target_rep[i],
                                         DefaultK, args.margin_variant, Eps)
       IN  IF score.ok
           THEN /\ locals' = [locals EXCEPT !.layer_acc =
                                  [l \in DOMAIN locals.layer_acc \cup {i} |->
                                      IF l = i THEN layer_accuracy(score.val)
                                      ELSE locals.layer_acc[l]]]
                /\ UNCHANGED <<pc, ret>>
           ELSE /\ ret' = score
                /\ pc' = "raised"
                /\ locals' = locals
    /\ UNCHANGED <<args, fs>>

\* wr_plot.plot_layer_accuracy(layer_accuracy=layer_acc, save_folder=..., note=...)
Plot ==
    /\ pc = "score"
    /\ Pending = {}
    /\ LET r == plot_layer_accuracy(locals.layer_acc, args.save_folder, fs)
       IN  /\ ret' = r.ret
           /\ fs' = r.fs
           /\ pc' = IF r.ret.ok THEN "done" ELSE "raised"
    /\ UNCHANGED <<args, locals>>

Next ==
    \/ SelectSingle
    \/ SelectSample
    \/ SelectFull
    \/ PromptFew
    \/ PromptZero
    \/ RepBase
    \/ RepTarget
    \/ ScoreLayer
    \/ Plot

Spec == Init /\ [][Next]_vars

\* ------------------------------------------------------------------ claims

Rows(a) == 1..size0(a)
Cols(a) == 1..size1(a)

Scored == pc \in {"accuracy", "done", "raised"}

RECURSIVE SumOver(_, _)
SumOver(v, S) ==
    IF S = {} THEN R(0)
    ELSE LET s == CHOOSE s \in S : TRUE
         IN  RatAdd(v[s], SumOver(v, S \ {s}))

\* The sets of m positions of v that hold m largest values of v.
TopSets(v, m) ==
    {S \in SUBSET (1..Len(v)) :
        /\ Cardinality(S) = m
        /\ \A s \in S, t \in (1..Len(v)) \ S : ~RatLess(v[s], v[t])}

\* The mean of m largest values of v (the same for every choice among ties).
TopMean(v, m) ==
    LET S == CHOOSE S \in TopSets(v, m) : TRUE
    IN  RatDiv(SumOver(v, S), R(m))

\* No two rows of the set point in the same direction (cosine 1): no ties.
NoTies(f) ==
    \A i, j \in 1..Len(f) :
        i # j => f[i] # f[j] /\ cosine_similarity(<<f[i]>>, <<f[j]>>)[1][1] # R(1)

SelfScored == pc = "done" /\ args.first = args.second /\ NoTies(args.first)

Perfect == (\A i \in Rows(ret.val) : argmax_rows(ret.val)[i] = i - 1) /\ ret.acc = R(1)

C9_Dispatch ==
    Scored =>
        LET a == locals.a
            b == locals.b
        IN  /\ ret.ok
            /\ a = cosine_similarity(args.first, args.second)
            /\ args.variant = "absolute" => ret.val = a
            /\ args.variant # "absolute" =>
                  \A i \in Rows(a), j \in Cols(a) :
                      /\ RatSub(RatMul(b[i][j], R(2)), RatMul(Eps, R(2)))
                            = RatAdd(locals.row_mean[i], locals.col_mean[j])
                      /\ args.variant = "distance" =>
                            RatAdd(ret.val[i][j], b[i][j]) = a[i][j]
                      /\ args.variant # "distance" =>
                            IF a[i][j] = R(0) THEN ret.val[i][j] = R(0)
                            ELSE /\ ret.val[i][j] # R(0)
                                 /\ RatDiv(a[i][j], ret.val[i][j]) = b[i][j]

C9_Witness ==
    /\ pc = "done"
    /\ args.variant = "cosine"
    /\ Len(args.first) # Len(args.second)
    /\ \E i \in Rows(ret.val), j \in Cols(ret.val) : ret.val[i][j] # locals.a[i][j]

\* C10: under a variant other than "absolute" the call never raises, the
\* result has shape (n1, n2), the row baseline of row i is the mean of exactly
\* min(k, n2) largest values of row i of a, and the column baseline of column
\* j is the mean of exactly min(k, n1) largest values of column j.
C10_Neighbourhood ==
    (Scored /\ args.variant # "absolute") =>
        LET a == locals.a
            n1 == Len(args.first)
            n2 == Len(args.second)
        IN  /\ ret.ok
            /\ size0(ret.val) = n1
            /\ \A i \in 1..n1 : Len(ret.val[i]) = n2
            /\ \A i \in 1..n1 : locals.row_mean[i] = TopMean(a[i], Min(args.k, n2))
            /\ \A j \in 1..n2 : locals.col_mean[j] = TopMean(Col(a, j), Min(args.k, n1))

C10_Witness ==
    /\ pc = "done"
    /\ args.variant = "distance"
    /\ Len(args.first) = 1
    /\ Len(args.second) = 2
    /\ args.k = DefaultK

\* p is the position of the first maximum of v.
IsFirstMax(v, p) ==
    /\ \A q \in 1..Len(v) : ~RatLess(v[p], v[q])
    /\ \A q \in 1..(p - 1) : RatLess(v[q], v[p])

\* The rows of s whose first maximum is on the diagonal.
HitRows(s) == {i \in 1..Len(s) : IsFirstMax(s[i], i)}

\* C6: on an (n, n) score matrix layer_accuracy returns (number of rows whose
\* first maximum is on the diagonal) / n; the result is within [0, 1], is 1
\* exactly when every row's first maximum is on the diagonal, and a row whose
\* maximum is tied between the diagonal and an earlier column is a miss.
C6_Accuracy ==
    (pc = "done" /\ "score" \in DOMAIN args) =>
        LET s == args.score
            n == Len(s)
        IN  /\ RatMul(ret.acc, R(n)) = R(Cardinality(HitRows(s)))
            /\ ~RatLess(ret.acc, R(0))
            /\ ~RatLess(R(1), ret.acc)
            /\ ret.acc = R(1) <=> HitRows(s) = 1..n
            /\ (\E i \in 1..n, q \in 1..n :
                    q < i /\ s[i][q] = s[i][i] /\ \A c \in 1..n : ~RatLess(s[i][i], s[i][c]))
                  => RatLess(ret.acc, R(1))

C6_Witness ==
    /\ pc = "done"
    /\ "score" \in DOMAIN args
    /\ Len(args.score) = 3
    /\ args.score[2][1] = args.score[2][2]
    /\ IsFirstMax(args.score[2], 1)
    /\ ret.acc = Rat(2, 3)

\* The last position of a mask that holds a one.
LastOne(mask) ==
    CHOOSE p \in 1..Len(mask) :
        mask[p] = 1 /\ \A q \in (p + 1)..Len(mask) : mask[q] = 0

\* C8: on a right-padded mask with c >= 1 ones last_token_hidden_state selects,
\* for each sequence from its own mask row, the hidden vector at index c - 1,
\* the last position with mask = 1: index 2 for [1,1,1,0,0], index L - 1 for
\* an all-ones mask of length L, and (3,3) for [1,1,0] over (1,1), (3,3), (9,9).
C8_LastToken ==
    (pc = "pooled" /\ args.fn = "last") =>
        \A s \in 1..Len(args.hidden_states) :
            LET hs == args.hidden_states[s]
                mask == args.attention_mask[s]
                c == IntSum(mask)
            IN  /\ ret.val[s] = hs[LastOne(mask)]
                /\ LastOne(mask) = c
                /\ mask = <<1, 1, 1, 0, 0>> => ret.val[s] = hs[3]
                /\ (\A p \in 1..Len(mask) : mask[p] = 1) => ret.val[s] = hs[Len(mask)]
                /\ (mask = <<1, 1, 0>> /\ hs = <<Vec(1, 1), Vec(3, 3), Vec(9, 9)>>)
                      => ret.val[s] = Vec(3, 3)

C8_Witness ==
    /\ pc = "pooled"
    /\ args.fn = "last"
    /\ Len(args.hidden_states) = 2
    /\ args.attention_mask[1] = <<1, 1, 1, 0, 0>>
    /\ args.attention_mask[2] = <<1, 1, 1, 1, 1>>
    /\ ret.val[1] = Vec(9, 9)
    /\ ret.val[2] = Vec(5, -5)

\* The pooled vector of one sentence at layer i: the sentence alone, unpadded.
PooledAlone(sentence, fn, i) ==
    LET tokens == tokenizer(<<sentence>>)
    IN  hidden_state_fn(fn, hidden_states_of(tokens, 0)[i], tokens.attention_mask)[1]

\* Row r of every layer of rep is the pooled vector of sentence r, for the
\* first n sentences.
RowsInOrder(rep, n) ==
    \A i \in DOMAIN rep :
        /\ Len(rep[i]) = n
        /\ \A r \in 1..n :
              rep[i][r] = PooledAlone(args.sentences[r], args.hidden_state_fn, i)

\* C2: layer_representation takes the sentences in contiguous batches of the
\* batch size (only the last may be smaller) and returns, for N >= 1
\* sentences, one matrix for each layer 0..NumLayers, each of N rows, row r
\* the pooled vector of sentence r.
C2_RowOrder ==
    LET n == Len(args.sentences)
    IN  /\ (pc = "batch" /\ locals.start > 0) =>
              /\ locals.start % args.batch_size = 0
              /\ locals.start - args.batch_size < n
              /\ DOMAIN locals.temp = 0..NumLayers
              /\ \A i \in DOMAIN locals.temp :
                    /\ Len(locals.temp[i]) = locals.start \div args.batch_size
                    /\ \A t \in 1..Len(locals.temp[i]) :
                          Len(locals.temp[i][t]) =
                              IF t * args.batch_size <= n THEN args.batch_size
                              ELSE n - (t - 1) * args.batch_size
              /\ RowsInOrder(concatenated(locals.temp), Min(locals.start, n))
        /\ (pc = "returned" /\ n >= 1) =>
              /\ DOMAIN ret[Len(ret)] = 0..NumLayers
              /\ RowsInOrder(ret[Len(ret)], n)

C2_Witness ==
    /\ pc = "returned"
    /\ Len(args.sentences) = 3
    /\ args.batch_size = 2
    /\ args.sentences[1] # args.sentences[2]
    /\ Len(args.sentences[3]) > Len(args.sentences[2])
    /\ Len(ret[1][NumLayers]) = 3

\* The sum of the hidden vectors of the real tokens of a sentence divided by
\* their number, or the hidden vector of its last real token.
PooledByDefinition(sentence, fn, i) ==
    LET l == Len(sentence)
        h(p) == HiddenAt(i, sentence, RightPadded(l, l), p, 0)
    IN  IF fn = "mean"
        THEN [d \in 1..2 |-> RatDiv(RatSum([p \in 1..l |-> h(p)[d]]), R(l))]
        ELSE h(l)

\* C3: the same sentence list extracted with any two batch sizes gives the
\* same matrix for every layer, although each batch is padded to its own
\* longest sequence and the padded positions hold other vectors each time:
\* a row is the mean over the real tokens or the vector of the last real
\* token, whatever was appended on the right.
C3_BatchSize ==
    /\ Len(ret) = 2 => ret[1] = ret[2]
    /\ pc = "returned" =>
          \A i \in DOMAIN ret[Len(ret)], r \in 1..Len(args.sentences) :
              ret[Len(ret)][i][r] =
                  PooledByDefinition(args.sentences[r], args.hidden_state_fn, i)

C3_Witness ==
    /\ Len(ret) = 2
    /\ args.batch_size = 1
    /\ args.hidden_state_fn = "mean"
    /\ Len(args.sentences) = 3
    /\ Len(args.sentences[1]) < Len(args.sentences[2])
    /\ ret[1] = layer_representation(args.sentences, DefaultBatchSize, "mean",
                                      [x \in 0..0 |-> 5])

\* C4: on two lists of equal length sample_pairs returns two lists of length
\* min(sample_size, len(base)) for which pairwise distinct source positions
\* exist that give both lists: the same positions for base and for target.
C4_AlignedSample ==
    (pc = "sampled" /\ Len(args.base) = Len(args.target)) =>
        LET n == Len(args.base)
            m == Min(args.sample_size, n)
        IN  /\ ret.ok
            /\ Len(ret.val[1]) = m
            /\ Len(ret.val[2]) = m
            /\ \E src \in [1..m -> 1..n] :
                  /\ \A i, j \in 1..m : i # j => src[i] # src[j]
                  /\ \A j \in 1..m :
                        /\ ret.val[1][j] = args.base[src[j]]
                        /\ ret.val[2][j] = args.target[src[j]]

C4_Witness ==
    /\ pc = "sampled"
    /\ ret.ok
    /\ Len(args.base) = 2
    /\ args.base[1] # args.base[2]
    /\ args.target[1] # args.target[2]
    /\ args.sample_size = DefaultSampleSize
    /\ ret.val[1] = <<args.base[2], args.base[1]>>
    /\ ret.val[2] = <<args.target[2], args.target[1]>>

\* C5: every operation that consumes the two aligned lists ends in an error
\* when their lengths differ; none returns a result computed from a truncated
\* pairing.
C5_FailFast ==
    (pc \in {"sampled", "filtered"} /\ Len(args.base) # Len(args.target)) => ~ret.ok

\* C7: an empty mapping at the plotting boundary is a hard failure, raised
\* before the folder is made or a file written; a run left with zero word
\* pairs gets an empty mapping from layer_representation, scores no layer
\* and ends with that error instead of a plot.
C7_EmptyMapping ==
    /\ pc \in {"done", "raised"} =>
          /\ DOMAIN locals.layer_acc = {} <=> ret = Raise("ValueError")
          /\ ~ret.ok => fs = NoFiles
          /\ Len(locals.base) = 0 =>
                /\ DOMAIN locals.base_rep = {}
                /\ DOMAIN locals.layer_acc = {}
                /\ ret = Raise("ValueError")
    /\ pc \notin {"done", "raised"} => fs = NoFiles

C7_Witness ==
    /\ pc = "raised"
    /\ args.data = "single"
    /\ Len(args.dataset) = 2
    /\ Len(locals.target) = 0
    /\ DOMAIN locals.target_rep = {}
    /\ ret.err = "ValueError"
    /\ fs = NoFiles

====
